---- MODULE Spec2Model ----
(***************************************************************************)
(* Model of the download orchestrator (src/unnamed/part_002, the latest    *)
(* iteration of sync-yt.ts): the persisted appState, the p-limit pool of   *)
(* downloadTrack pipelines, the registry of spawned processes and the      *)
(* shutdown path, over successive runs of the program.                     *)
(*                                                                         *)
(* One step of the model is one turn of the Node event loop: an event      *)
(* handler together with every promise continuation it triggers.           *)
(***************************************************************************)
EXTENDS Integers, Sequences, FiniteSets, TLC

\* ------------------------------------------------------------------ bounds
MaxRuns == 2        \* runs of the program over a list of two entries
PoolRuns == 1       \* runs of the program over a list of three entries
MaxFaults == 1      \* crashes of the node process and artifacts deleted by
                    \* hand in one behaviour
ScriptedRuns == 3   \* runs of the program when every tool follows a script
SyncRuns == 1       \* runs of the earlier program, src/sync-yt.ts

FrailRuns == 1      \* runs in which the state file or proc.kill may fail
QuietRuns == 1      \* runs that nothing interrupts

\* ------------------------------------------------------- program constants
maxRetries == 3
NameLimit == 100

\* ------------------------------------------------------------------ inputs
Ids == {"a", "b", "c"}

\* metadata.title returned by `yt-dlp -j` for each id; a and b sanitize to
\* the same file name
MetaTitle(id) ==
    CASE id = "a" -> <<"x">>
      [] id = "b" -> <<"x", "/">>
      [] OTHER    -> <<"y">>

\* trackInfo.title before the metadata is known: the url itself
UrlTitle(id) == <<"u", ":", id>>

\* allTracks (the same in every run), config.concurrency and the number of
\* runs explored: an id may be listed twice (a playlist entry that is also in
\* videoUrls), two ids may share a file name
Concurrencies == {1, 2}

ShortLists == { <<"a", "b">>, <<"a", "c">>, <<"a", "a">> }

LongLists == { <<"a", "b", "c">> }

Configs ==
    [ list : ShortLists, concurrency : Concurrencies, runs : {MaxRuns} ]

\* more entries than slots
PoolConfigs ==
    [ list : LongLists, concurrency : {2}, runs : {PoolRuns} ]

\* config.playlistUrls with what `yt-dlp --flat-playlist -J` answers for each
\* playlist (the same in every run) and config.videoUrls, for each list of
\* entries explored: "exit" is a non-zero exit code, "badjson" an output that
\* does not parse, "noentries" a JSON document without an entries array
SourcesOf(l) ==
    CASE l = <<"a", "b">> ->
           [ playlistUrls |-> << [answer |-> "ok", entries |-> <<"a">>],
                                 [answer |-> "exit", entries |-> <<"c">>] >>,
             videoUrls |-> <<"b">> ]
      [] l = <<"a", "c">> ->
           [ playlistUrls |-> << [answer |-> "badjson", entries |-> <<"b">>],
                                 [answer |-> "ok", entries |-> <<"a", "c">>] >>,
             videoUrls |-> << >> ]
      [] l = <<"a", "a">> ->
           [ playlistUrls |-> << [answer |-> "ok", entries |-> <<"a">>],
                                 [answer |-> "noentries", entries |-> << >>] >>,
             videoUrls |-> <<"a">> ]
      [] OTHER ->
           [ playlistUrls |-> << [answer |-> "ok", entries |-> <<"a", "b">>] >>,
             videoUrls |-> <<"c">> ]

\* what the earlier program is run on
FrailConfigs ==
    [ list : { <<"a", "c">> }, concurrency : Concurrencies,
      runs : {FrailRuns} ]

\* lists that fill the pool, with and without a repeated id
QuietConfigs ==
    [ list : ShortLists \cup LongLists, concurrency : Concurrencies,
      runs : {QuietRuns} ]

SyncConfigs ==
    [ list : ShortLists, concurrency : Concurrencies, runs : {SyncRuns} ]

ScriptedConfigs ==
    { [list |-> <<"a", "b", "c">>, concurrency |-> 1, runs |-> ScriptedRuns],
      [list |-> <<"a", "c">>, concurrency |-> 2, runs |-> ScriptedRuns],
      [list |-> <<"a", "a">>, concurrency |-> 2, runs |-> ScriptedRuns] }

\* what the external tools do at each attempt of an id: the stage that fails
\* (or "ok"); the last entry repeats for ever, the empty script leaves every
\* exit code open
Unscripted == [id \in Ids |-> << >>]

\* a fails its download every time, the two others always succeed
SteadyScript == [id \in Ids |-> IF id = "a" THEN <<"download">> ELSE <<"ok">>]

\* a succeeds, b fails its download twice and then succeeds, c fails its
\* transcode every time
ExampleScript ==
    [id \in Ids |-> CASE id = "a" -> <<"ok">>
                      [] id = "b" -> <<"download", "download", "ok">>
                      [] OTHER    -> <<"transcode">>]

Stages == {"meta", "download", "transcode"}
Outcomes == {"ok", "meta", "download", "transcode", "finalize"}

\* ------------------------------------------------------- sanitizeFilename
InvalidChars == {"\\", "/", ":", "\"", "*", "?", "<", ">", "|"}

RECURSIVE DropInvalid(_)
DropInvalid(t) ==
    IF t # <<>> /\ Head(t) \in InvalidChars THEN DropInvalid(Tail(t)) ELSE t

RECURSIVE ReplaceInvalid(_)
ReplaceInvalid(t) ==
    IF t = <<>> THEN <<>>
    ELSE IF Head(t) \in InvalidChars
         THEN <<"-">> \o ReplaceInvalid(DropInvalid(t))
         ELSE <<Head(t)>> \o ReplaceInvalid(Tail(t))

RECURSIVE DropHyphens(_)
DropHyphens(t) ==
    IF t # <<>> /\ Head(t) = "-" THEN DropHyphens(Tail(t)) ELSE t

RECURSIVE CollapseHyphens(_)
CollapseHyphens(t) ==
    IF t = <<>> THEN <<>>
    ELSE IF Head(t) = "-"
         THEN <<"-">> \o CollapseHyphens(DropHyphens(t))
         ELSE <<Head(t)>> \o CollapseHyphens(Tail(t))

TrimHyphens(t) ==
    LET l == IF t # <<>> /\ Head(t) = "-" THEN Tail(t) ELSE t
    IN  IF l # <<>> /\ l[Len(l)] = "-" THEN SubSeq(l, 1, Len(l) - 1) ELSE l

sanitizeFilename(filename) ==
    LET t == TrimHyphens(CollapseHyphens(ReplaceInvalid(filename)))
    IN  SubSeq(t, 1, IF Len(t) < NameLimit THEN Len(t) ELSE NameLimit)

\* ------------------------------------------------------------------- paths
finalOutputPath(name) == [dir |-> "Downloaded", name |-> name, kind |-> "mp4"]
tempDownloadPath(name) == [dir |-> "Temp", name |-> name, kind |-> "download"]
tempTranscodePath(name) == [dir |-> "Temp", name |-> name, kind |-> "transcode"]

\* src/sync-yt.ts: `${sanitizedTitle}_temp.mp4` in the download directory
tempOutput(name) == [dir |-> "Downloaded", name |-> name, kind |-> "temp"]

\* the two iterations of the program that are modelled
Variants == {"part_002", "sync-yt"}

\* the `-o` argument of the yt-dlp download
downloadOutput(v, name) ==
    IF v = "sync-yt" THEN finalOutputPath(name) ELSE tempDownloadPath(name)

\* the last argument of ffmpeg
transcodeOutput(v, name) ==
    IF v = "sync-yt" THEN tempOutput(name) ELSE tempTranscodePath(name)

\* ------------------------------------------------------------------- state
VARIABLES
    phase,            \* "off" | "running" | "exiting" | "exited" | "fatal" | "crashed"
    run,              \* number of runs started
    runsLeft,         \* runs that may still be started
    list,             \* allTracks
    playlistUrls,     \* config.playlistUrls, each with its answer and entries
    videoUrls,        \* config.videoUrls
    concurrency,      \* config.concurrency
    variant,          \* the iteration of the program that is run
    medium,           \* whether sync_state.json can be written
    appState,         \* the in-memory AppState
    disk,             \* sync_state.json
    files,            \* files under Downloaded/ and Temp/
    pc,               \* position of the downloadTrack call of each list entry
    activeProcesses,  \* the Set of spawned child processes
    activeDownloads,  \* keys of the activeDownloads Map
    signalled,        \* child processes that were sent SIGTERM
    killed,           \* child processes proc.kill('SIGTERM') was called on
    plan,             \* scripted outcomes of the attempts of each id
    attempts,         \* pipelines started for each scripted id
    demoted,          \* list entries whose pipeline reset a stale downloaded flag
    loaded,           \* appState as read at the start of the run
    committed,        \* tracks of the last completely written state file
    interrupted,      \* a scripted run ended while a downloadTrack call was pending
    faults            \* crashes and deleted artifacts so far

vars == << phase, run, runsLeft, list, playlistUrls, videoUrls, concurrency, variant,
           medium, appState, disk, files, pc, activeProcesses, activeDownloads,
           signalled, killed, plan, attempts, demoted, loaded, committed, interrupted,
           faults >>

\* `let appState = { tracks: {}, stats: {...0} }`
EmptyState ==
    [ tracks |-> << >>,
      stats  |-> [totalTracks |-> 0, completedTracks |-> 0, errorTracks |-> 0] ]

\* the fields of a TrackState; an absent optional field is its falsy value,
\* lastAttempt and timestamp are both `new Date().toISOString()`
TrackState(downloaded, title, error, retries, at) ==
    [ downloaded |-> downloaded, title |-> title, error |-> error,
      retries |-> retries, lastAttempt |-> at, timestamp |-> at ]

HasTrack(st, url) == url \in DOMAIN st.tracks

\* appState.tracks[url]?.retries || 0
Retries(st, url) == IF HasTrack(st, url) THEN st.tracks[url].retries ELSE 0

\* a variant that keeps the new record only
SetTrackAlone(st, url, rec) ==
    [ st EXCEPT !.tracks = [ u \in {url} |-> rec ] ]

\* appState.tracks[url] = rec
SetTrack(st, url, rec) ==
    [ st EXCEPT !.tracks =
        [ u \in (DOMAIN st.tracks) \cup {url} |->
            IF u = url THEN rec ELSE st.tracks[u] ] ]

\* ------------------------------------------ the state the handlers work on
\* Handlers are written as functions of a record m of the mutable state; an
\* action applies a handler to Machine and installs the result.  m.now is what
\* the clock shows: it is read at the resolution of a run.
Machine ==
    [ appState |-> appState, disk |-> disk, files |-> files, pc |-> pc,
      activeProcesses |-> activeProcesses, activeDownloads |-> activeDownloads,
      plan |-> plan, attempts |-> attempts, demoted |-> demoted,
      committed |-> committed, list |-> list, now |-> run,
      variant |-> variant, medium |-> medium, thrown |-> FALSE ]

Install(m) ==
    /\ appState' = m.appState
    /\ disk' = m.disk
    /\ files' = m.files
    /\ pc' = m.pc
    /\ activeProcesses' = m.activeProcesses
    /\ activeDownloads' = m.activeDownloads
    /\ plan' = m.plan
    /\ attempts' = m.attempts
    /\ demoted' = m.demoted
    /\ committed' = m.committed

\* a variant whose write gives up in silence when the file cannot be written
writeJsonSyncQuiet(m) ==
    IF m.medium = "unwritable"
    THEN m
    ELSE [ m EXCEPT !.disk = [st |-> "valid", state |-> m.appState],
                    !.committed = m.appState.tracks ]

\* fs.writeJsonSync(stateFile, appState, { spaces: 2 }): it throws when the
\* file cannot be written
writeJsonSync(m) ==
    IF m.medium = "unwritable"
    THEN [ m EXCEPT !.thrown = TRUE ]
    ELSE [ m EXCEPT !.disk = [st |-> "valid", state |-> m.appState],
                    !.committed = m.appState.tracks ]

\* `try { fs.writeJsonSync(stateFile, appState, ...) } catch { log(...) }`
tryWriteJsonSync(m) == [ writeJsonSync(m) EXCEPT !.thrown = m.thrown ]

\* appState.stats.completedTracks++ / errorTracks++
IncCompleted(m) ==
    [ m EXCEPT !.appState.stats.completedTracks = @ + 1 ]

IncError(m) ==
    [ m EXCEPT !.appState.stats.errorTracks = @ + 1 ]

\* a variant whose stage starts a second process of its own
spawnPair(m, i, kind) ==
    [ m EXCEPT !.activeProcesses = @ \cup {[pl |-> i, kind |-> kind],
                                           [pl |-> i, kind |-> "helper"]},
               !.pc[i] = kind ]

\* spawn(...) followed by activeProcesses.add(process)
spawn(m, i, kind) ==
    [ m EXCEPT !.activeProcesses = @ \cup {[pl |-> i, kind |-> kind]},
               !.pc[i] = kind ]

\* a variant whose handlers leave the process in the set
reapLeak(m, i, kind) == m

\* the 'close' / 'error' handler: activeProcesses.delete(process)
reap(m, i, kind) ==
    [ m EXCEPT !.activeProcesses = @ \ {[pl |-> i, kind |-> kind]} ]

\* a variant that transcodes without a download
NextStageSkipping(stage) == "transcode"

\* downloadTrack awaits fetchMetadata, then downloadVideo, then transcodeVideo
NextStage(stage) == IF stage = "meta" THEN "download" ELSE "transcode"

\* an attempt is over: the script of the id moves on (the last entry repeats)
NextAttempt(m, url) ==
    [ m EXCEPT !.plan[url] = IF Len(@) > 1 THEN Tail(@) ELSE @ ]

\* the code the process of stage `stage` of `url` may exit with: a process
\* that was sent SIGTERM closes with code null
MayExit(m, i, stage, ok) ==
    IF [pl |-> i, kind |-> stage] \in signalled
    THEN ~ok
    ELSE IF m.plan[m.list[i]] = << >>
         THEN TRUE
         ELSE ok <=> (Head(m.plan[m.list[i]]) # stage)

\* whether remove/rename of the finalize step may fail with `io`
MayFinalize(m, i, io) ==
    IF m.plan[m.list[i]] = << >>
    THEN TRUE
    ELSE (io = "ok") <=> (Head(m.plan[m.list[i]]) # "finalize")

\* ------------------------------------------------------- handleTrackError
\* a variant that records the failure in memory only
handleTrackErrorUnsaved(m, i, error, title) ==
    LET url == m.list[i]
        m1  == [ m EXCEPT !.appState =
                   SetTrack(@, url,
                       TrackState(FALSE,
                                  IF m.variant = "sync-yt" THEN << >> ELSE title,
                                  error, Retries(@, url) + 1, m.now)) ]
        m2  == IncError(m1)
    IN  NextAttempt(
          [ m2 EXCEPT !.activeDownloads = @ \ {url}, !.pc[i] = "failed" ],
          url)

handleTrackError(m, i, error, title) ==
    LET url == m.list[i]
        m1  == [ m EXCEPT !.appState =
                   SetTrack(@, url,
                       TrackState(FALSE,
                                  IF m.variant = "sync-yt" THEN << >> ELSE title,
                                  error, Retries(@, url) + 1, m.now)) ]
        m2  == writeJsonSync(m1)
        m3  == IncError(m2)
    IN  IF m2.thrown
        THEN [ m2 EXCEPT !.pc[i] = "rejected" ]
        ELSE NextAttempt(
               [ m3 EXCEPT !.activeDownloads = @ \ {url}, !.pc[i] = "failed" ],
               url)

\* ----------------------------------------------------------- finalizeTrack
\* fs.removeSync(outputPath); fs.renameSync(tempOutput, outputPath)
removeSync(fls, path) == fls \ {path}

renameSync(fls, from, to) == (fls \ {from}) \cup {to}

\* a variant that records the item without moving the transcoded file
finalizeTrackNoRename(m, i) ==
    LET url   == m.list[i]
        title == MetaTitle(url)
        m2 == [ m EXCEPT !.appState =
                  SetTrack(@, url, TrackState(TRUE, title, "", 0, m.now)) ]
    IN  IncCompleted(writeJsonSync(m2))

finalizeTrack(m, i) ==
    LET url   == m.list[i]
        title == MetaTitle(url)
        name  == sanitizeFilename(title)
        m1 == [ m EXCEPT !.files =
                  renameSync(removeSync(@, finalOutputPath(name)),
                             transcodeOutput(m.variant, name),
                             finalOutputPath(name)) ]
        m2 == [ m1 EXCEPT !.appState =
                  SetTrack(@, url, TrackState(TRUE, title, "", 0, m.now)) ]
        m3 == writeJsonSync(m2)
    IN  IF m3.thrown THEN m3 ELSE IncCompleted(m3)

\* downloadTrack from the end of transcodeVideo to its return
AfterTranscode(m, i, io) ==
    LET url  == m.list[i]
        name == sanitizeFilename(MetaTitle(url))
    IN  IF io = "removeFails"
        THEN handleTrackError(m, i, "finalize", MetaTitle(url))
        ELSE IF \/ io = "renameFails"
                \/ transcodeOutput(m.variant, name) \notin m.files
        THEN handleTrackError(
               [ m EXCEPT !.files = removeSync(@, finalOutputPath(name)) ],
               i, "finalize", MetaTitle(url))
        ELSE LET m1 == finalizeTrack(m, i)
             IN  IF m1.thrown
                 THEN handleTrackError([ m1 EXCEPT !.thrown = FALSE ],
                                       i, "write", MetaTitle(url))
                 ELSE NextAttempt(
                        [ m1 EXCEPT !.files =
                                       IF m.variant = "sync-yt" THEN @
                                       ELSE removeSync(@, tempDownloadPath(name)),
                                    !.activeDownloads = @ \ {url},
                                    !.pc[i] = "finalized" ],
                        url)

\* ------------------------------------------------- downloadTrack, the start
\* the variant of src/sync-yt.ts: a downloaded record is trusted without a
\* look at the file
StaleUnchecked(m, i) == FALSE

\* the record of entry i says downloaded but has no title or its file is
\* gone; src/sync-yt.ts does not look
Stale(m, i) ==
    LET url == m.list[i]
        st  == m.appState
    IN  /\ m.variant # "sync-yt"
        /\ HasTrack(st, url)
        /\ st.tracks[url].downloaded
        /\ \/ st.tracks[url].title = << >>
           \/ finalOutputPath(sanitizeFilename(st.tracks[url].title))
                \notin m.files

\* a variant that counts a retry whenever the file of a record is not there
CheckArtifactCounting(m, i) ==
    LET url == m.list[i]
        st  == m.appState
    IN  IF /\ HasTrack(st, url)
           /\ finalOutputPath(sanitizeFilename(st.tracks[url].title))
                \notin m.files
        THEN [ m EXCEPT !.appState.tracks[url].downloaded = FALSE,
                        !.appState.tracks[url].retries = @ + 1,
                        !.demoted = @ \cup {i} ]
        ELSE m

\* a variant that replaces the record by a fresh one
DemoteAndReset(rec) == TrackState(FALSE, << >>, "", 0, 0)

\* appState.tracks[url].downloaded = false
Demote(rec) == [ rec EXCEPT !.downloaded = FALSE ]

\* the check of a downloaded record at the head of downloadTrack: a stale
\* record loses its downloaded flag
CheckArtifact(m, i) ==
    IF Stale(m, i)
    THEN [ m EXCEPT !.appState.tracks[m.list[i]] = Demote(@),
                    !.demoted = @ \cup {i} ]
    ELSE m

\* a variant that counts the skip as one more failed attempt
GiveUpRecorded(m, i) ==
    LET url == m.list[i]
        m1  == [ m EXCEPT !.appState =
                   SetTrack(@, url,
                       TrackState(FALSE, UrlTitle(url), "Too many retries",
                                  Retries(@, url) + 1, m.now)) ]
    IN  [ IncError(writeJsonSync(m1)) EXCEPT !.pc[i] = "exhausted" ]

\* the return for `retries >= config.maxRetries`
GiveUp(m, i) == [ IncError(m) EXCEPT !.pc[i] = "exhausted" ]

\* a variant that skips without counting
SkipUncounted(m, i) == [ m EXCEPT !.pc[i] = "skipped" ]

\* the return for a downloaded record whose file exists
Skip(m, i) == [ IncCompleted(m) EXCEPT !.pc[i] = "skipped" ]

\* a variant without the `retries >= config.maxRetries` return
BeginTrackNoRetryLimit(m, i) ==
    LET url   == m.list[i]
        st    == m.appState
        stale == Stale(m, i)
        m1    == CheckArtifact(m, i)
    IN  IF HasTrack(st, url) /\ st.tracks[url].downloaded /\ ~stale
        THEN Skip(m, i)
        ELSE spawn(
               [ m1 EXCEPT !.activeDownloads = @ \cup {url},
                           !.attempts[url] =
                              IF m.plan[url] = << >> THEN @ ELSE @ + 1 ],
               i, "meta")

\* from the call to the first await (the spawn of the metadata process)
BeginTrack(m, i) ==
    LET url   == m.list[i]
        st    == m.appState
        stale == Stale(m, i)
        m1    == CheckArtifact(m, i)
    IN  IF HasTrack(st, url) /\ st.tracks[url].downloaded /\ ~stale
        THEN Skip(m, i)
        ELSE IF Retries(m1.appState, url) >= maxRetries
        THEN GiveUp(m1, i)
        ELSE spawn(
               [ m1 EXCEPT !.activeDownloads = @ \cup {url},
                           !.attempts[url] =
                              IF m.plan[url] = << >> THEN @ ELSE @ + 1 ],
               i, "meta")

\* ------------------------------------------------------------------ p-limit
\* a variant in which a call that has failed or finalized keeps its slot
InFlightKept(m) ==
    { i \in DOMAIN m.pc : m.pc[i] \in Stages \cup {"failed", "finalized"} }

\* the downloadTrack calls that hold a slot of the pool
InFlight(m) == { i \in DOMAIN m.pc : m.pc[i] \in Stages }

Queued(m) == { i \in DOMAIN m.pc : m.pc[i] = "queued" }

\* the downloadTrack calls that have not returned
Pending(m) == InFlight(m) \cup Queued(m)

\* limit(() => downloadTrack(url)): queued calls start in submission order
\* while fewer than `concurrency` calls are running
HasSlotOffByOne(m) == Cardinality(InFlight(m)) <= concurrency

HasSlot(m) == Cardinality(InFlight(m)) < concurrency

\* a variant that takes the call submitted last
NextQueuedLast(m) == CHOOSE q \in Queued(m) : \A r \in Queued(m) : q >= r

\* queue.dequeue(): the queued call that was submitted first
NextQueued(m) == CHOOSE q \in Queued(m) : \A r \in Queued(m) : q <= r

RECURSIVE Drain(_)
\* a variant that demotes the stale record of every waiting entry before it
\* admits one
DrainReconcileFirst(m) ==
    LET waiting == { q \in Queued(m) : Stale(m, q) }
        m1 == [ m EXCEPT
                  !.appState.tracks =
                     [ u \in DOMAIN @ |->
                         IF \E q \in waiting : m.list[q] = u
                         THEN [ @[u] EXCEPT !.downloaded = FALSE ]
                         ELSE @[u] ],
                  !.demoted = @ \cup waiting ]
    IN  IF Queued(m) # {} /\ HasSlot(m)
        THEN Drain(BeginTrack(m1, NextQueued(m1)))
        ELSE m

Drain(m) ==
    IF Queued(m) # {} /\ HasSlot(m)
    THEN Drain(BeginTrack(m, NextQueued(m)))
    ELSE m

\* next() of p-limit after a call that rejected: the call submitted first
\* among the queued ones starts at once; the rejection reaches main before
\* any further call is taken from the queue
AdmitOne(m) ==
    IF Queued(m) # {} THEN BeginTrack(m, NextQueued(m)) ELSE m

\* a variant of the pool that never takes a call from the queue
SettleStuck(m) == m

\* the pool after a downloadTrack call has settled
Settle(m) == IF m.thrown THEN AdmitOne(m) ELSE Drain(m)

\* ------------------------------------------------------ the list of tracks
\* getTracksFromPlaylist: a rejected execAsync and a parse error end in the
\* outer catch, a document without entries in the early return; all give []
getTracksFromPlaylist(playlist) ==
    IF playlist.answer = "exit" THEN << >>
    ELSE IF playlist.answer = "badjson" THEN << >>
    ELSE IF playlist.answer = "noentries" THEN << >>
    ELSE playlist.entries

\* the loop over config.playlistUrls in main
RECURSIVE GatherPlaylists(_)
GatherPlaylists(playlists) ==
    IF playlists = << >> THEN << >>
    ELSE getTracksFromPlaylist(Head(playlists))
           \o GatherPlaylists(Tail(playlists))

\* a variant in which a playlist that fails ends the gathering
AllTracksFailFast(playlists, videos) ==
    IF \E k \in DOMAIN playlists : playlists[k].answer # "ok"
    THEN << >>
    ELSE GatherPlaylists(playlists) \o videos

\* allTracks: the playlist entries, then config.videoUrls
AllTracks(playlists, videos) == GatherPlaylists(playlists) \o videos

\* ----------------------------------------------------------------- startup
\* the state load at module level: a missing file keeps the initial appState,
\* an unparsable one is replaced by the empty state
LoadState(d) == IF d.st = "valid" THEN d.state ELSE EmptyState

InitWith(configs, scripts, v) ==
    /\ phase = "off"
    /\ variant = v
    /\ run = 0
    /\ \E c \in configs :
          /\ playlistUrls = SourcesOf(c.list).playlistUrls
          /\ videoUrls = SourcesOf(c.list).videoUrls
          /\ concurrency = c.concurrency
          /\ runsLeft = c.runs
    /\ list = << >>
    /\ plan \in scripts
    /\ interrupted = FALSE
    /\ appState = EmptyState
    /\ disk = [st |-> "missing", state |-> EmptyState]
    /\ files = {}
    /\ pc = << >>
    /\ activeProcesses = {}
    /\ activeDownloads = {}
    /\ signalled = {}
    /\ attempts = [id \in Ids |-> 0]
    /\ demoted = {}
    /\ loaded = EmptyState
    /\ committed = << >>
    /\ faults = 0
    /\ medium = "writable"
    /\ killed = {}

Init == InitWith(Configs, {Unscripted}, "part_002")

InitPool == InitWith(PoolConfigs, {Unscripted}, "part_002")

InitScripted ==
    InitWith(ScriptedConfigs, {SteadyScript, ExampleScript}, "part_002")

InitSyncYt == InitWith(SyncConfigs, {Unscripted}, "sync-yt")

InitFrail == InitWith(FrailConfigs, {Unscripted}, "part_002")

\* a variant that gives up when the state file does not parse
StartRunAbortOnCorrupt ==
    /\ phase \in {"off", "exited", "fatal", "crashed"}
    /\ runsLeft > 0
    /\ LET st == LoadState(disk)
           allTracks == AllTracks(playlistUrls, videoUrls)
           m  == [ Machine EXCEPT
                     !.list = allTracks,
                     !.now = run + 1,
                     !.appState =
                        [ st EXCEPT !.stats.totalTracks = Len(allTracks) ],
                     !.pc = [ i \in 1..Len(allTracks) |-> "queued" ],
                     !.activeProcesses = {},
                     !.activeDownloads = {},
                     !.demoted = {} ]
       IN  /\ Install(IF disk.st = "torn" THEN [ m EXCEPT !.pc = << >> ] ELSE Drain(m))
           /\ loaded' = st
           /\ list' = allTracks
    /\ phase' = IF disk.st = "torn" THEN "exited" ELSE "running"
    /\ run' = run + 1
    /\ runsLeft' = runsLeft - 1
    /\ signalled' = {}
    /\ killed' = {}
    /\ UNCHANGED << playlistUrls, videoUrls, concurrency, variant, medium, interrupted, faults >>

\* a new node process: the state load, then main() up to Promise.all (the
\* playlists are expanded one after the other before any track is submitted)
StartRun ==
    /\ phase \in {"off", "exited", "fatal", "crashed"}
    /\ runsLeft > 0
    /\ LET st == LoadState(disk)
           allTracks == AllTracks(playlistUrls, videoUrls)
           m  == [ Machine EXCEPT
                     !.list = allTracks,
                     !.now = run + 1,
                     !.appState =
                        [ st EXCEPT !.stats.totalTracks = Len(allTracks) ],
                     !.pc = [ i \in 1..Len(allTracks) |-> "queued" ],
                     !.activeProcesses = {},
                     !.activeDownloads = {},
                     !.demoted = {} ]
       IN  /\ Install(Drain(m))
           /\ loaded' = st
           /\ list' = allTracks
    /\ phase' = "running"
    /\ run' = run + 1
    /\ runsLeft' = runsLeft - 1
    /\ signalled' = {}
    /\ killed' = {}
    /\ UNCHANGED << playlistUrls, videoUrls, concurrency, variant, medium, interrupted, faults >>

Live == phase \in {"running", "exiting"}

\* the node process is gone and its heap with it; the child processes it
\* had registered stay behind as they were
Forget ==
    /\ appState' = EmptyState
    /\ pc' = << >>
    /\ activeDownloads' = {}
    /\ demoted' = {}
    /\ loaded' = EmptyState

\* control returns to the event loop; when a downloadTrack call has rejected,
\* Promise.all rejects, the catch of main tries a last write of the state
\* file and calls process.exit(1)
Resume(m) ==
    IF m.thrown
    THEN /\ phase' = "fatal"
         /\ disk' = tryWriteJsonSync(m).disk
         /\ committed' = tryWriteJsonSync(m).committed
         /\ files' = m.files
         /\ activeProcesses' = m.activeProcesses
         /\ plan' = m.plan
         /\ attempts' = m.attempts
         /\ Forget
    ELSE /\ Install(m)
         /\ UNCHANGED << phase, loaded >>

\* ------------------------------------------------- the process 'close' events
\* the metadata process of entry i exits; on success downloadVideo spawns
\* yt-dlp, on failure handleTrackError records the attempt
MetadataClose(i, ok) ==
    /\ Live
    /\ i \in DOMAIN pc /\ pc[i] = "meta"
    /\ MayExit(Machine, i, "meta", ok)
    /\ LET url == list[i]
           m0  == reap(Machine, i, "meta")
           m1  == IF ok
                  THEN spawn([ m0 EXCEPT !.activeDownloads = @ \cup {url} ],
                             i, NextStage("meta"))
                  ELSE handleTrackError(m0, i, "Command failed", UrlTitle(url))
       IN  Resume(Settle(m1))
    /\ UNCHANGED << run, runsLeft, list, playlistUrls, videoUrls,
                    concurrency, variant, medium, signalled, killed,
                    interrupted, faults >>

\* the yt-dlp download of entry i exits; on success transcodeVideo spawns ffmpeg
DownloadClose(i, ok) ==
    /\ Live
    /\ i \in DOMAIN pc /\ pc[i] = "download"
    /\ MayExit(Machine, i, "download", ok)
    /\ LET url  == list[i]
           name == sanitizeFilename(MetaTitle(url))
           m0   == reap(Machine, i, "download")
           m1   == IF ok
                   THEN spawn(
                          [ m0 EXCEPT !.files =
                               @ \cup {downloadOutput(variant, name),
                                       transcodeOutput(variant, name)},
                                     !.activeDownloads = @ \cup {url} ],
                          i, NextStage("download"))
                   ELSE handleTrackError(m0, i, "Download failed", MetaTitle(url))
       IN  Resume(Settle(m1))
    /\ UNCHANGED << run, runsLeft, list, playlistUrls, videoUrls,
                    concurrency, variant, medium, signalled, killed,
                    interrupted, faults >>

\* ffmpeg of entry i exits; on success the track is finalized
TranscodeClose(i, ok, io) ==
    /\ Live
    /\ i \in DOMAIN pc /\ pc[i] = "transcode"
    /\ MayExit(Machine, i, "transcode", ok)
    /\ IF ok THEN MayFinalize(Machine, i, io) ELSE io = "ok"
    /\ LET url == list[i]
           m0  == reap(Machine, i, "transcode")
           m1  == IF ok
                  THEN AfterTranscode(m0, i, io)
                  ELSE handleTrackError(m0, i, "Transcoding failed", MetaTitle(url))
       IN  Resume(Settle(m1))
    /\ UNCHANGED << run, runsLeft, list, playlistUrls, videoUrls,
                    concurrency, variant, medium, signalled, killed,
                    interrupted, faults >>

\* ---------------------------------------------------------------- shutdown
\* a variant whose loop ends at the first proc.kill that throws
killUntilThrow(procs, throwing) ==
    { p \in procs : \A q \in throwing : p.pl <= q.pl }

\* `for (const proc of activeProcesses) { try { proc.kill('SIGTERM') } catch {} }`:
\* the processes proc.kill is called on
killAll(procs, throwing) == procs

\* cleanupAndExit when proc.kill throws for the processes in `throwing`: kill
\* every registered process, save the state (a failed write is logged),
\* schedule process.exit in 300 ms
Shutdown(throwing) ==
    /\ phase = "running"
    /\ throwing \subseteq activeProcesses
    /\ killed' = killed \cup killAll(activeProcesses, throwing)
    /\ signalled' = signalled \cup (killAll(activeProcesses, throwing) \ throwing)
    /\ Install(tryWriteJsonSync(Machine))
    /\ phase' = "exiting"
    /\ interrupted' = (interrupted \/ (plan # Unscripted /\ Pending(Machine) # {}))
    /\ UNCHANGED << run, runsLeft, list, playlistUrls, videoUrls,
                    concurrency, variant, medium, loaded, faults >>

\* SIGINT, SIGTERM or the q key, delivered once to a run
cleanupAndExit == Shutdown({})

\* setTimeout(() => process.exit(exitCode), 300) fires
ExitTimer ==
    /\ phase = "exiting"
    /\ phase' = "exited"
    /\ Forget
    /\ UNCHANGED << run, runsLeft, list, playlistUrls, videoUrls,
                    concurrency, variant, medium, disk, files,
                    activeProcesses, signalled, killed, plan, attempts, committed,
                    interrupted, faults >>

\* ------------------------------------------------------------- environment
\* the node process dies (kill -9, power loss); when it dies inside
\* writeJsonSync the state file is left truncated
Crash(torn) ==
    /\ Live
    /\ faults < MaxFaults
    /\ torn => (phase = "running" \/ InFlight(Machine) # {})
    /\ disk' = IF torn THEN [st |-> "torn", state |-> EmptyState] ELSE disk
    /\ phase' = "crashed"
    /\ faults' = faults + 1
    /\ interrupted' = (interrupted \/ (plan # Unscripted /\ Pending(Machine) # {}))
    /\ Forget
    /\ UNCHANGED << run, runsLeft, list, playlistUrls, videoUrls,
                    concurrency, variant, medium, files, activeProcesses,
                    signalled, killed, plan, attempts, committed >>

\* somebody deletes a published artifact between two runs
DeleteArtifact(path) ==
    /\ phase \in {"exited", "fatal", "crashed"}
    /\ faults < MaxFaults
    /\ path \in files /\ path.dir = "Downloaded" /\ path.kind = "mp4"
    /\ files' = files \ {path}
    /\ faults' = faults + 1
    /\ UNCHANGED << phase, run, runsLeft, list, playlistUrls, videoUrls,
                    concurrency, variant, medium, appState, disk, pc,
                    activeProcesses, activeDownloads, signalled, killed, plan, attempts,
                    demoted, loaded, committed, interrupted >>

\* the state file can no longer be written (disk full, permissions)
MediumFails ==
    /\ medium = "writable"
    /\ medium' = "unwritable"
    /\ UNCHANGED << phase, run, runsLeft, list, playlistUrls, videoUrls,
                    concurrency, variant, appState, disk, files, pc,
                    activeProcesses, activeDownloads, signalled, killed, plan,
                    attempts, demoted, loaded, committed, interrupted, faults >>

Entries == {1, 2, 3}
IoResults == {"ok", "removeFails", "renameFails"}

Next ==
    \/ StartRun
    \/ \E i \in Entries, ok \in BOOLEAN : MetadataClose(i, ok)
    \/ \E i \in Entries, ok \in BOOLEAN : DownloadClose(i, ok)
    \/ \E i \in Entries, ok \in BOOLEAN, io \in IoResults : TranscodeClose(i, ok, io)
    \/ cleanupAndExit
    \/ ExitTimer
    \/ \E torn \in BOOLEAN : Crash(torn)
    \/ \E path \in files : DeleteArtifact(path)

Spec == Init /\ [][Next]_vars

SpecPool == InitPool /\ [][Next]_vars

SpecScripted == InitScripted /\ [][Next]_vars

SpecSyncYt == InitSyncYt /\ [][Next]_vars

\* the environment also lets the state file become unwritable and lets
\* proc.kill throw
NextFrail ==
    \/ Next
    \/ MediumFails
    \/ \E throwing \in (SUBSET activeProcesses) \ {{}} : Shutdown(throwing)

SpecFrail == InitFrail /\ [][NextFrail]_vars

\* one run that nothing interrupts: no signal, no key, no crash
InitQuiet == InitWith(QuietConfigs, {Unscripted}, "part_002")

\* the 'close' event of the process of entry i
CloseOf(i) ==
    \/ \E ok \in BOOLEAN : MetadataClose(i, ok)
    \/ \E ok \in BOOLEAN : DownloadClose(i, ok)
    \/ \E ok \in BOOLEAN, io \in IoResults : TranscodeClose(i, ok, io)

NextQuiet ==
    \/ StartRun
    \/ \E i \in Entries : CloseOf(i)

\* the program is started and every spawned process exits in the end
SpecQuiet ==
    /\ InitQuiet
    /\ [][NextQuiet]_vars
    /\ WF_vars(StartRun)
    /\ \A i \in Entries : WF_vars(CloseOf(i))

\* the same, but the process of the first entry need not exit
SpecStalled ==
    /\ InitQuiet
    /\ [][NextQuiet]_vars
    /\ WF_vars(StartRun)
    /\ \A i \in Entries \ {1} : WF_vars(CloseOf(i))

TypeOK ==
    /\ phase \in {"off", "running", "exiting", "exited", "fatal", "crashed"}
    /\ medium \in {"writable", "unwritable"}
    /\ signalled \subseteq killed
    /\ \A i \in DOMAIN pc :
          pc[i] \in Stages \cup {"queued", "skipped", "exhausted", "failed", "finalized"}

\* ================================================================== claims
Terminal == {"skipped", "exhausted", "failed", "finalized"}

\* every downloadTrack call of the run has returned and the process lives on
AllReturned ==
    /\ phase = "running"
    /\ \A i \in DOMAIN pc : pc[i] \in Terminal

ArtifactOf(url) == finalOutputPath(sanitizeFilename(MetaTitle(url)))

\* C1: once every downloadTrack call of a run has returned,
\* completedTracks + errorTracks = totalTracks = the number of submitted ids,
\* also in a run that starts from a state file of an earlier run.
C1_AllAccountedOnce ==
    AllReturned =>
        /\ appState.stats.totalTracks = Len(list)
        /\ appState.stats.completedTracks + appState.stats.errorTracks
             = appState.stats.totalTracks

\* C2: at most config.concurrency downloadTrack calls are between admission
\* and their return at any moment, and a queued call starts only in a step in
\* which a running call returns.
C2_ConcurrencyCap ==
    /\ [](Cardinality(InFlight(Machine)) <= concurrency)
    /\ [][ \A i \in (DOMAIN pc) \cap (DOMAIN pc') :
             (pc[i] = "queued" /\ pc'[i] # "queued")
                => \E j \in InFlight(Machine) : pc'[j] \in Terminal ]_vars

\* the third entry runs next to one other call after a first call returned
C2_Witness ==
    /\ concurrency = 2
    /\ Len(list) = 3
    /\ 3 \in InFlight(Machine)
    /\ Cardinality(InFlight(Machine)) = 2

\* C3: an id whose download fails at every attempt is attempted exactly
\* maxRetries times over the runs: never more than maxRetries pipelines are
\* started for it, its stored retries never exceeds maxRetries, and when it is
\* skipped for its retries exactly maxRetries attempts have been made (no
\* crash, no deleted artifact, no run cut short).
C3_ExactlyMaxRetries ==
    (faults = 0 /\ ~interrupted) =>
        \A i \in DOMAIN pc :
            LET url == list[i]
            IN  plan[url] = <<"download">> =>
                  /\ attempts[url] <= maxRetries
                  /\ Retries(appState, url) <= maxRetries
                  /\ (pc[i] = "exhausted" => attempts[url] = maxRetries)

\* C4: an entry whose stored record says downloaded while its artifact is
\* missing is, when its pipeline starts, demoted and sent to the metadata
\* fetch instead of being skipped; a demoted entry moves through metadata,
\* download, transcode and finalize in that order, and the step that finalizes
\* it leaves the record downloaded in memory and on disk with the artifact
\* present.
C4_Reconciliation ==
    [][ \A i \in DOMAIN pc' :
          LET url    == list'[i]
              st     == IF Live THEN appState ELSE LoadState(disk)
              before == IF i \in DOMAIN pc THEN pc[i] ELSE "queued"
              gone   == IF HasTrack(st, url) /\ st.tracks[url].downloaded
                        THEN finalOutputPath(sanitizeFilename(st.tracks[url].title))
                               \notin (files \cup files')
                        ELSE FALSE
          IN  /\ (before = "queued" /\ pc'[i] # "queued" /\ gone) =>
                    /\ pc'[i] = "meta"
                    /\ \E j \in demoted' : list'[j] = url
                    /\ ~appState'.tracks[url].downloaded
              /\ (i \in demoted /\ i \in demoted' /\ before # pc'[i]) =>
                    << before, pc'[i] >> \in
                        { <<"meta", "download">>, <<"download", "transcode">>,
                          <<"transcode", "finalized">>, <<"meta", "failed">>,
                          <<"download", "failed">>, <<"transcode", "failed">> }
              /\ (i \in demoted /\ before = "transcode" /\ pc'[i] = "finalized") =>
                    /\ appState'.tracks[url].downloaded
                    /\ disk'.st = "valid"
                    /\ disk'.state.tracks[url].downloaded
                    /\ ArtifactOf(url) \in files' ]_vars

\* a demoted entry has been finalized again
C4_Witness ==
    \E i \in demoted :
        /\ pc[i] = "finalized"
        /\ appState.tracks[list[i]].downloaded
        /\ ArtifactOf(list[i]) \in files

\* C5: cleanupAndExit sends SIGTERM to every process registered at that
\* moment, and when the process has exited activeProcesses is empty and the
\* state file parses.
C5_ShutdownClean ==
    /\ [][ (phase = "running" /\ phase' = "exiting") =>
              activeProcesses \subseteq signalled' ]_vars
    /\ [](phase = "exited" => (activeProcesses = {} /\ disk.st = "valid"))

\* C6: between cleanupAndExit and the exit of the process no queued
\* downloadTrack call starts and no process is spawned.
C6_NoAdmissionAfterShutdown ==
    [][ (phase = "exiting" /\ phase' = "exiting") =>
          /\ \A i \in Queued(Machine) : pc'[i] = "queued"
          /\ activeProcesses' \subseteq activeProcesses ]_vars

\* C7: list a, b, c; a always succeeds, b fails its download in two runs and
\* then succeeds, c fails its transcode in every run.  When the calls of run
\* maxRetries have returned, a and b are downloaded, b has retries 2, c is not
\* downloaded with retries maxRetries, and the counters are completedTracks 2
\* and errorTracks 1.
C7_ExampleScenario ==
    ( /\ list = <<"a", "b", "c">>
      /\ plan["c"] = <<"transcode">>
      /\ run = maxRetries
      /\ AllReturned
      /\ faults = 0 /\ ~interrupted ) =>
        /\ appState.tracks["a"].downloaded
        /\ appState.tracks["b"].downloaded
        /\ appState.tracks["b"].retries = 2
        /\ ~appState.tracks["c"].downloaded
        /\ appState.tracks["c"].retries = maxRetries
        /\ appState.stats.completedTracks = 2
        /\ appState.stats.errorTracks = 1

\* every id of tracks is, in the state st and with the files fls, either
\* downloaded with its artifact in place or out of retries
SettledAt(st, fls, tracks) ==
    \A i \in 1..Len(tracks) :
        /\ HasTrack(st, tracks[i])
        /\ LET rec == st.tracks[tracks[i]]
           IN  IF rec.downloaded
               THEN /\ rec.title # << >>
                    /\ finalOutputPath(sanitizeFilename(rec.title)) \in fls
               ELSE rec.retries >= maxRetries

\* the tools behave the same at every attempt
SteadyTools == \A id \in Ids : Len(plan[id]) = 1

C9_FailureIsolated ==
    /\ [][ \A i \in (DOMAIN pc) \cap (DOMAIN pc') :
             (pc[i] \in Stages /\ pc'[i] = "failed") =>
                /\ disk'.st = "valid"
                /\ HasTrack(disk'.state, list[i])
                /\ ~disk'.state.tracks[list[i]].downloaded
                /\ disk'.state.tracks[list[i]].error # ""
                /\ disk'.state.tracks[list[i]].retries = Retries(appState, list[i]) + 1
                /\ \A j \in InFlight(Machine) \ {i} : pc'[j] = pc[j]
                /\ \A j \in Queued(Machine) :
                      (\A k \in Queued(Machine) : j <= k) => pc'[j] # "queued" ]_vars
    /\ []((Live /\ Queued(Machine) # {}) =>
               Cardinality(InFlight(Machine)) = concurrency)

\* the first entry has failed and the second one has been finalized after it
C9_Witness ==
    /\ phase = "running"
    /\ DOMAIN pc = {1, 2}
    /\ pc[1] = "failed"
    /\ pc[2] = "finalized"
    /\ concurrency = 1

\* C10: after a crash the state the next run loads holds every record of the
\* last completely written state file, unchanged.
C10_CrashKeepsCommitted ==
    phase = "crashed" =>
        \A url \in DOMAIN committed :
            /\ HasTrack(LoadState(disk), url)
            /\ LoadState(disk).tracks[url] = committed[url]

\* C11: a run that finds no state file, or one that does not parse, starts
\* from the empty state (no tracks, counters 0) and schedules every submitted
\* entry: the first `concurrency` entries are at their metadata fetch, the
\* others wait in the queue, and totalTracks is the length of the list.
C11_FallbackToEmpty ==
    [][ (run' = run + 1 /\ disk.st \in {"missing", "torn"}) =>
          /\ phase' = "running"
          /\ loaded'.tracks = << >>
          /\ loaded'.stats =
                [totalTracks |-> 0, completedTracks |-> 0, errorTracks |-> 0]
          /\ DOMAIN pc' = 1..Len(list')
          /\ \A i \in DOMAIN pc' :
                pc'[i] = IF i <= concurrency THEN "meta" ELSE "queued"
          /\ appState'.stats =
                [totalTracks |-> Len(list'), completedTracks |-> 0,
                 errorTracks |-> 0] ]_vars

\* a second run has started from a state file that does not parse
C11_Witness ==
    /\ phase = "running"
    /\ run = 2
    /\ disk.st = "torn"
    /\ loaded.tracks = << >>
    /\ pc[1] = "meta"

\* the record of url in st says downloaded
IsDownloaded(st, url) ==
    IF HasTrack(st, url) THEN st.tracks[url].downloaded ELSE FALSE

\* the file the record of url in st names
RecordedArtifact(st, url) ==
    finalOutputPath(sanitizeFilename(st.tracks[url].title))

\* C12: a step of a running process that turns a record to downloaded, in
\* memory or in the state file, leaves the file Downloaded/<sanitized
\* title>.mp4 of that record in place; a pipeline that fails after its
\* transcode (a failed remove or rename) leaves its id recorded as not
\* downloaded in memory and in the state file.
C12_DownloadedHasArtifact ==
    [][ (Live /\ phase' \in {"running", "exiting"}) =>
          /\ \A url \in Ids :
                /\ (IsDownloaded(appState', url) /\ ~IsDownloaded(appState, url))
                      => RecordedArtifact(appState', url) \in files'
                /\ (IsDownloaded(LoadState(disk'), url)
                        /\ ~IsDownloaded(LoadState(disk), url))
                      => RecordedArtifact(LoadState(disk'), url) \in files'
          /\ \A i \in DOMAIN pc :
                (pc[i] = "transcode" /\ pc'[i] = "failed") =>
                   /\ ~IsDownloaded(appState', list[i])
                   /\ ~IsDownloaded(LoadState(disk'), list[i]) ]_vars

\* one entry was published, another one failed in its remove or rename
C12_Witness ==
    /\ phase = "running"
    /\ DOMAIN pc = {1, 2}
    /\ pc[1] = "finalized"
    /\ IsDownloaded(appState, list[1])
    /\ RecordedArtifact(appState, list[1]) \in files
    /\ pc[2] = "failed"
    /\ appState.tracks[list[2]].error = "finalize"
    /\ list[2] # list[1]

\* C13: a step of a running process turns a record from downloaded to not
\* downloaded only by the demotion of an entry whose artifact is missing.
C13_OnlyDemotionReverts ==
    [][ (Live /\ phase' \in {"running", "exiting"}) =>
          \A url \in Ids :
              (IsDownloaded(appState, url) /\ ~IsDownloaded(appState', url))
                 => \E i \in demoted' \ demoted : list[i] = url ]_vars

\* C14: in every state of a run completedTracks is the number of entries whose
\* pipeline ended finalized or skipped, errorTracks the number of entries whose
\* pipeline ended failed or given up, and their sum is at most totalTracks.
C14_CountersMatchOutcomes ==
    Live =>
        /\ appState.stats.completedTracks =
              Cardinality({ i \in DOMAIN pc : pc[i] \in {"finalized", "skipped"} })
        /\ appState.stats.errorTracks =
              Cardinality({ i \in DOMAIN pc : pc[i] \in {"failed", "exhausted"} })
        /\ appState.stats.completedTracks + appState.stats.errorTracks
              <= appState.stats.totalTracks

\* C15: no two downloadTrack pipelines of the same id are in flight at once.
C15_OnePipelinePerId ==
    \A i \in InFlight(Machine) : \A j \in InFlight(Machine) :
        (i # j) => (list[i] # list[j])

\* C16: downloadTrack begins in submission order: an entry has left the queue
\* only if every entry submitted before it has left the queue.
C16_FifoAdmission ==
    \A i \in DOMAIN pc : \A j \in DOMAIN pc :
        (i < j /\ pc[j] # "queued") => pc[i] # "queued"

\* with one slot the second entry runs after the first one has returned
C16_Witness ==
    /\ phase = "running"
    /\ concurrency = 1
    /\ pc[1] \in Terminal
    /\ pc[2] \in Stages

\* C17: while the program runs, activeProcesses holds exactly the process of
\* the current stage of every pipeline in flight (spawned, neither closed nor
\* failed); when every downloadTrack call has returned it is empty.
C17_RegistryExact ==
    /\ Live => activeProcesses =
                  { [pl |-> i, kind |-> pc[i]] : i \in InFlight(Machine) }
    /\ AllReturned => activeProcesses = {}

\* the first pipeline has returned, ffmpeg of the second one is registered
C17_Witness ==
    /\ phase = "running"
    /\ DOMAIN pc = {1, 2}
    /\ pc[1] \in Terminal
    /\ pc[2] = "transcode"
    /\ activeProcesses = {[pl |-> 2, kind |-> "transcode"]}

\* what playlist k hands to main: its entries, nothing when its expansion
\* failed
Contribution(k) ==
    IF playlistUrls[k].answer = "ok" THEN playlistUrls[k].entries ELSE << >>

\* the number of tracks the first k playlists hand to main
RECURSIVE TracksBefore(_)
TracksBefore(k) ==
    IF k = 0 THEN 0 ELSE TracksBefore(k - 1) + Len(Contribution(k))

\* C18: the step that starts a run submits, in this order, the entries of
\* every playlist whose expansion succeeded and every configured video URL; a
\* playlist whose yt-dlp call exits non-zero, prints no valid JSON or has no
\* entries array adds nothing and takes nothing away from the others.
C18_FailedPlaylistSkipped ==
    [][ (run' = run + 1) =>
          LET n == Len(playlistUrls)
          IN  /\ Len(list') = TracksBefore(n) + Len(videoUrls)
              /\ \A k \in 1..n : \A e \in 1..Len(Contribution(k)) :
                    list'[TracksBefore(k - 1) + e] = Contribution(k)[e]
              /\ \A v \in 1..Len(videoUrls) :
                    list'[TracksBefore(n) + v] = videoUrls[v]
              /\ DOMAIN pc' = 1..Len(list')
              /\ appState'.stats.totalTracks = Len(list') ]_vars

\* a run is under way although the expansion of a playlist failed: the entry
\* of the other playlist and the video URL are both submitted
C18_Witness ==
    /\ phase = "running"
    /\ \E k \in DOMAIN playlistUrls : playlistUrls[k].answer # "ok"
    /\ \E k \in DOMAIN playlistUrls :
          /\ playlistUrls[k].answer = "ok"
          /\ playlistUrls[k].entries # << >>
    /\ videoUrls # << >>
    /\ Len(list) = 2
    /\ DOMAIN pc = {1, 2}

Before == IF Live THEN appState ELSE LoadState(disk)

\* C21: the step that demotes entry i leaves the record of its id as it was
\* but for the downloaded flag (retries, title, error, lastAttempt and
\* timestamp are the ones stored before), and the entry is given up in that
\* step exactly when these retries are maxRetries or more; otherwise its
\* metadata fetch is spawned.
C21_DemotionKeepsFields ==
    [][ \A i \in demoted' \ demoted :
          LET url == list'[i]
              rec == Before.tracks[url]
          IN  /\ rec.downloaded
              /\ appState'.tracks[url] = [ rec EXCEPT !.downloaded = FALSE ]
              /\ appState'.tracks[url].retries = rec.retries
              /\ appState'.tracks[url].timestamp = rec.timestamp
              /\ IF rec.retries >= maxRetries
                 THEN pc'[i] = "exhausted"
                 ELSE pc'[i] = "meta" ]_vars

\* a record finalized in an earlier run has been demoted in this one: it still
\* carries the title and the timestamp of the earlier run
C21_Witness ==
    \E i \in demoted :
        /\ phase = "running"
        /\ ~appState.tracks[list[i]].downloaded
        /\ appState.tracks[list[i]].title = MetaTitle(list[i])
        /\ appState.tracks[list[i]].timestamp < run
        /\ appState.tracks[list[i]].retries = 0
        /\ pc[i] = "meta"

\* C22: the step in which a stage of entry i fails leaves, in memory and in
\* the state file, a record of its id that is not downloaded, names the error
\* and counts one retry more than was stored; once a pipeline of an id has
\* failed no process is spawned for that id in the rest of the run.
C22_OneFailureRecord ==
    [][ (Live /\ phase' \in {"running", "exiting"}) =>
          \A i \in DOMAIN pc :
              /\ (pc[i] \in Stages /\ pc'[i] = "failed") =>
                    /\ ~appState'.tracks[list[i]].downloaded
                    /\ appState'.tracks[list[i]].error # ""
                    /\ appState'.tracks[list[i]].retries =
                          Retries(appState, list[i]) + 1
                    /\ disk'.st = "valid"
                    /\ disk'.state.tracks[list[i]] = appState'.tracks[list[i]]
              /\ (pc'[i] = "failed") =>
                    \A p \in activeProcesses' \ activeProcesses :
                        list[p.pl] # list[i] ]_vars

\* the record of url in st, read as the code reads it: an absent record or
\* field is its falsy value
StoredRecord(st, url) ==
    IF HasTrack(st, url) THEN st.tracks[url]
    ELSE TrackState(FALSE, << >>, "", 0, 0)

\* C23: between cleanupAndExit and the exit of the process the record of an
\* id whose process was sent SIGTERM stays what it was, in memory and in the
\* state file (downloaded, error, retries), and errorTracks does not grow.
C23_ShutdownRecordsNoFailure ==
    [][ (phase = "exiting" /\ phase' = "exiting") =>
          \A p \in signalled :
              LET url == list[p.pl]
              IN  /\ StoredRecord(LoadState(disk'), url) =
                        StoredRecord(LoadState(disk), url)
                  /\ StoredRecord(appState', url) = StoredRecord(appState, url)
                  /\ appState'.stats.errorTracks = appState.stats.errorTracks ]_vars

\* C24: a step of the running process that changes appState (a failure
\* record, a completion record, a demotion, a counter) leaves a state file
\* that holds exactly the appState in memory, tracks and stats.
C24_DiskEqualsMemory ==
    [][ (Live /\ phase' \in {"running", "exiting"} /\ appState' # appState) =>
          /\ disk'.st = "valid"
          /\ disk'.state.tracks = appState'.tracks
          /\ disk'.state.stats = appState'.stats ]_vars

\* C25: the step in which the download or the transcode of entry i fails
\* leaves neither Temp/<name>_download nor Temp/<name>_transcode.mp4 behind.
C25_TempRemovedOnFailure ==
    [][ (Live /\ phase' \in {"running", "exiting"}) =>
          \A i \in DOMAIN pc :
              (pc[i] \in {"download", "transcode"} /\ pc'[i] = "failed") =>
                 LET name == sanitizeFilename(MetaTitle(list[i]))
                 IN  /\ tempDownloadPath(name) \notin files'
                     /\ tempTranscodePath(name) \notin files' ]_vars

\* C26: in either iteration of the program neither yt-dlp nor ffmpeg is given
\* Downloaded/<sanitized title>.mp4 as its output, and a file appears at that
\* path only in the step that finalizes a pipeline of that title.
C26_FinalPathOnlyByRename ==
    /\ [](\A i \in InFlight(Machine) :
             LET name == sanitizeFilename(MetaTitle(list[i]))
             IN  /\ pc[i] = "download" =>
                       downloadOutput(variant, name) # finalOutputPath(name)
                 /\ pc[i] = "transcode" =>
                       transcodeOutput(variant, name) # finalOutputPath(name))
    /\ [][ (Live /\ phase' \in {"running", "exiting"}) =>
             \A f \in files' \ files :
                 (f.dir = "Downloaded" /\ f.kind = "mp4") =>
                    \E i \in DOMAIN pc :
                        /\ pc[i] = "transcode"
                        /\ pc'[i] = "finalized"
                        /\ f = ArtifactOf(list[i]) ]_vars

\* C27: two pipelines of different ids that are both past their metadata
\* fetch work on different files: their temporary download paths, their
\* temporary transcode paths and their final output paths differ.
C27_DistinctPaths ==
    Live =>
        \A i \in InFlight(Machine) : \A j \in InFlight(Machine) :
            ( /\ list[i] # list[j]
              /\ pc[i] \in {"download", "transcode"}
              /\ pc[j] \in {"download", "transcode"} ) =>
                LET ni == sanitizeFilename(MetaTitle(list[i]))
                    nj == sanitizeFilename(MetaTitle(list[j]))
                IN  /\ tempDownloadPath(ni) # tempDownloadPath(nj)
                    /\ tempTranscodePath(ni) # tempTranscodePath(nj)
                    /\ finalOutputPath(ni) # finalOutputPath(nj)

\* where the downloadTrack call of entry i was before the step
PosBefore(i) == IF i \in DOMAIN pc THEN pc[i] ELSE "queued"

\* the entries whose downloadTrack call returns in this step in one of `kinds`
Returned(kinds) ==
    { i \in DOMAIN pc' : PosBefore(i) \notin Terminal /\ pc'[i] \in kinds }

\* a step of the program: of a running process, or the start of one
ProgramStep == phase' \in {"running", "exiting"} /\ (Live \/ run' = run + 1)

\* no pipeline of the id of entry i fails, finalizes or is demoted in this
\* step
NoRecordWritten(i) ==
    \A j \in DOMAIN pc' :
        list'[j] = list'[i] =>
            /\ j \notin Returned({"failed", "finalized"})
            /\ j \notin demoted' \ demoted

\* over the step errorTracks grows by the number of pipelines that ended
\* failed or given up, completedTracks by the number that ended finalized or
\* skipped
CountedOnce ==
    /\ appState'.stats.errorTracks =
          Before.stats.errorTracks
            + Cardinality(Returned({"failed", "exhausted"}))
    /\ appState'.stats.completedTracks =
          Before.stats.completedTracks
            + Cardinality(Returned({"finalized", "skipped"}))

\* C28: an entry admitted while its record is not downloaded and has
\* retries >= maxRetries returns at once as given up, and only such an entry
\* does: no process is registered for it, it is not in activeDownloads, the
\* record of its id is the same in memory and in the state file as before
\* the step, and it adds one to errorTracks and nothing to completedTracks.
C28_GiveUpTouchesNothing ==
    [][ ProgramStep =>
          /\ \A i \in DOMAIN pc' :
                LET url == list'[i]
                IN  /\ (PosBefore(i) = "queued" /\ pc'[i] # "queued") =>
                          ( pc'[i] = "exhausted" <=>
                              /\ ~IsDownloaded(appState', url)
                              /\ Retries(appState', url) >= maxRetries )
                    /\ (PosBefore(i) = "queued" /\ pc'[i] = "exhausted") =>
                          /\ \A p \in activeProcesses' : p.pl # i
                          /\ (\A j \in InFlight(Machine) : list[j] # url) =>
                                url \notin activeDownloads'
                          /\ NoRecordWritten(i) =>
                                /\ appState'.tracks[url] = Before.tracks[url]
                                /\ StoredRecord(LoadState(disk'), url) =
                                      StoredRecord(LoadState(disk), url)
          /\ CountedOnce ]_vars

\* a run has given up every entry at its start: the records are the loaded
\* ones, errorTracks has grown by the number of entries
C28_Witness ==
    /\ phase = "running"
    /\ pc # << >>
    /\ \A i \in DOMAIN pc :
          /\ pc[i] = "exhausted"
          /\ Retries(appState, list[i]) >= maxRetries
    /\ appState.tracks = loaded.tracks
    /\ activeDownloads = {}
    /\ activeProcesses = {}
    /\ appState.stats.errorTracks = loaded.stats.errorTracks + Len(list)
    /\ appState.stats.completedTracks = loaded.stats.completedTracks

\* C29: an entry admitted with a downloaded record returns at once as skipped
\* only if the file of that record exists: then no process is registered for
\* it, the record of its id is what it was before the step, and the skip
\* adds one to completedTracks and nothing to errorTracks.
C29_SkipOnlyWithArtifact ==
    [][ ProgramStep =>
          /\ \A i \in DOMAIN pc' :
                LET url == list'[i]
                IN  (PosBefore(i) = "queued" /\ pc'[i] = "skipped") =>
                       /\ IsDownloaded(appState', url)
                       /\ appState'.tracks[url].title # << >>
                       /\ RecordedArtifact(appState', url) \in files'
                       /\ \A p \in activeProcesses' : p.pl # i
                       /\ NoRecordWritten(i) =>
                             /\ HasTrack(Before, url)
                             /\ appState'.tracks[url] = Before.tracks[url]
          /\ CountedOnce ]_vars

\* a later run has skipped an entry finalized by an earlier run, its file is
\* in place and its record is the loaded one
C29_Witness ==
    /\ phase = "running"
    /\ \E i \in DOMAIN pc :
          /\ pc[i] = "skipped"
          /\ IsDownloaded(appState, list[i])
          /\ RecordedArtifact(appState, list[i]) \in files
          /\ appState.tracks[list[i]].timestamp < run
          /\ appState.tracks[list[i]] = loaded.tracks[list[i]]
          /\ appState.stats.completedTracks > loaded.stats.completedTracks

\* C30: errorTracks grows in a step only if a pipeline that ended in it
\* leaves the retries of its id at maxRetries or more.
C30_ErrorCountedOnAbandon ==
    [][ ProgramStep =>
          ( appState'.stats.errorTracks > Before.stats.errorTracks =>
              \E i \in Returned({"failed", "exhausted"}) :
                  Retries(appState', list'[i]) >= maxRetries ) ]_vars

\* the moves of a downloadTrack call
StageOrder ==
    { <<"queued", "meta">>, <<"queued", "skipped">>, <<"queued", "exhausted">>,
      <<"meta", "download">>, <<"download", "transcode">>,
      <<"transcode", "finalized">>, <<"meta", "failed">>,
      <<"download", "failed">>, <<"transcode", "failed">> }

\* C31: a downloadTrack call moves from the queue to its metadata fetch, from
\* there to the download, the transcode and the finalize, or from any stage to
\* failed, and in no other way; it moves on from a stage only when the process
\* of that stage has closed without having been killed and without the failure
\* its script foresees, and while it is in a stage the process of that stage,
\* and no other of its processes, is registered.
C31_StagesInOrder ==
    [][ ProgramStep =>
          \A i \in DOMAIN pc' :
              /\ PosBefore(i) # pc'[i] => << PosBefore(i), pc'[i] >> \in StageOrder
              /\ ( /\ PosBefore(i) \in Stages
                   /\ pc'[i] \in {"download", "transcode", "finalized"}
                   /\ PosBefore(i) # pc'[i] ) =>
                      /\ [pl |-> i, kind |-> PosBefore(i)] \notin signalled
                      /\ [pl |-> i, kind |-> PosBefore(i)] \notin activeProcesses'
                      /\ \/ plan[list[i]] = << >>
                         \/ Head(plan[list[i]]) # PosBefore(i)
              /\ pc'[i] \in Stages =>
                    \A p \in activeProcesses' : p.pl = i => p.kind = pc'[i]
              /\ pc'[i] \in Terminal =>
                    \A p \in activeProcesses' : p.pl # i ]_vars

\* the download of the first entry has failed and it went no further, the
\* second entry is at its transcode
C31_Witness ==
    /\ phase = "running"
    /\ DOMAIN pc = {1, 2}
    /\ pc[1] = "failed"
    /\ appState.tracks[list[1]].error = "Download failed"
    /\ pc[2] = "transcode"
    /\ activeProcesses = {[pl |-> 2, kind |-> "transcode"]}

\* C39: while the program runs, every downloadTrack call has at most one
\* process in activeProcesses, every registered process belongs to a call
\* that is in a stage, and activeProcesses never holds more processes than
\* config.concurrency.
C39_ProcessesWithinConcurrency ==
    Live =>
        /\ \A p, q \in activeProcesses : p.pl = q.pl => p = q
        /\ \A p \in activeProcesses : p.pl \in DOMAIN pc /\ pc[p.pl] \in Stages
        /\ Cardinality(activeProcesses) <= concurrency

\* two pipelines run their processes side by side under concurrency 2 while a
\* third entry waits in the queue
C39_Witness ==
    /\ phase = "running"
    /\ concurrency = 2
    /\ Cardinality(activeProcesses) = 2
    /\ \E i \in DOMAIN pc : pc[i] = "queued"

\* C33: a shutdown calls proc.kill on every process registered in
\* activeProcesses, also when the call throws for some of them; it then
\* writes the state file, so that the file equals appState whenever the file
\* can be written, and schedules the exit without waiting for any process to
\* close: the registered processes and the position of every pipeline are
\* what they were.
C33_ShutdownSignalsAll ==
    [][ (phase = "running" /\ phase' = "exiting") =>
          /\ activeProcesses \subseteq killed'
          /\ medium = "writable" => disk' = [st |-> "valid", state |-> appState]
          /\ appState' = appState
          /\ activeProcesses' = activeProcesses
          /\ pc' = pc ]_vars

\* a shutdown has met two registered processes, proc.kill has thrown for one
\* of them and was called on both, and the state was saved
C33_Witness ==
    /\ phase = "exiting"
    /\ Cardinality(activeProcesses) = 2
    /\ activeProcesses \subseteq killed
    /\ \E p \in activeProcesses : p.pl = 1 /\ p \notin signalled
    /\ \E p \in activeProcesses : p.pl = 2 /\ p \in signalled
    /\ disk = [st |-> "valid", state |-> appState]

\* the processes whose 'close' event is handled in this step
Closed == { p \in activeProcesses : p \notin activeProcesses' \/ pc' = << >> }

\* C32: while the state file cannot be written, no pipeline ends as failed or
\* finalized with the program going on: a step in which the process of a
\* stage closes either moves the pipeline on to its next stage or ends the
\* program through the catch of main (exit code 1, no pipeline left), and a
\* closing ffmpeg always ends it; the program ends that way for no other
\* reason.
C32_WriteFailureStopsRun ==
    [][ /\ (Live /\ medium = "unwritable" /\ phase' \in {"running", "exiting"}) =>
              \A i \in DOMAIN pc' :
                  /\ pc'[i] \in {"failed", "finalized"} => pc[i] = pc'[i]
                  /\ \A p \in activeProcesses \ activeProcesses' :
                        p.pl = i => (p.kind \in {"meta", "download"}
                                        /\ pc'[i] = NextStage(p.kind))
        /\ (Live /\ medium = "unwritable" /\ phase' \in {"exited", "fatal"}) =>
              \/ phase = "exiting" /\ phase' = "exited" /\ disk' = disk
              \/ phase' = "fatal" /\ pc' = << >> /\ disk' = disk
        /\ (phase # "fatal" /\ phase' = "fatal") => (Live /\ medium = "unwritable")
      ]_vars

\* the first failure of a run could not be recorded: the program has ended
\* with exit code 1 and has written no state file
C32_Witness ==
    /\ phase = "fatal"
    /\ medium = "unwritable"
    /\ concurrency = 1
    /\ disk.st = "missing"

\* C38: whenever the program exits, through the exit timer of cleanupAndExit
\* or through process.exit(1) in the catch of main, proc.kill has been called
\* on every process that is registered in activeProcesses at that moment.
C38_AllSignalledBeforeExit ==
    [][ (Live /\ phase' \in {"exited", "fatal"}) =>
            activeProcesses' \subseteq killed' ]_vars

\* the ids whose pipeline records an outcome or demotes a record in this step
Touched ==
    { list'[i] : i \in Returned({"failed", "finalized"}) \cup (demoted' \ demoted) }

\* C34: a step of the program that rewrites the state file leaves a complete
\* file that holds a record for every id of the in-memory tracks map, equal
\* to the in-memory record (but for the flag of a record demoted after the
\* write, in the same step), and every record the file held before is still
\* there, unchanged unless a pipeline of its own id has recorded an outcome
\* in this step or has demoted it in this run.
C34_WritesAreComplete ==
    [][ (ProgramStep /\ disk' # disk) =>
          /\ disk'.st = "valid"
          /\ DOMAIN disk'.state.tracks = DOMAIN appState'.tracks
          /\ \A u \in DOMAIN appState'.tracks :
                \/ disk'.state.tracks[u] = appState'.tracks[u]
                \/ /\ u \in Touched
                   /\ disk'.state.tracks[u] =
                         [ appState'.tracks[u] EXCEPT !.downloaded = TRUE ]
          /\ disk.st = "valid" =>
                \A u \in DOMAIN disk.state.tracks :
                    /\ u \in DOMAIN disk'.state.tracks
                    /\ \/ disk'.state.tracks[u] = disk.state.tracks[u]
                       \/ u \in Touched
                       \/ \E i \in demoted' : list'[i] = u ]_vars

\* the pipelines of two ids have each written their outcome in one run, one
\* finalized and one failed, and the file holds both records
C34_Witness ==
    /\ phase = "running"
    /\ disk.st = "valid"
    /\ \E u, w \in DOMAIN disk.state.tracks :
          /\ disk.state.tracks[u].downloaded
          /\ ~disk.state.tracks[w].downloaded
          /\ disk.state.tracks[u].lastAttempt = run
          /\ disk.state.tracks[w].lastAttempt = run
    /\ disk.state.tracks = appState.tracks

\* C35: no step of the program leaves a published path empty: a file that
\* was at Downloaded/<name>.mp4 before the step is there after it.
C35_ArtifactNeverLost ==
    [][ ProgramStep =>
          \A f \in files :
              (f.dir = "Downloaded" /\ f.kind = "mp4") => f \in files' ]_vars

\* C36: when nothing shuts the program down and the process of the first
\* entry stays in one of its stages for ever while every other process exits
\* in the end, the run never reports completion; with a concurrency of two or
\* more every other entry is admitted and reaches a terminal position, with a
\* concurrency of one every other entry stays in the queue.
C36_StalledProcessBlocksCompletion ==
    (<>[](1 \in DOMAIN pc /\ pc[1] \in Stages)) =>
        /\ []~AllReturned
        /\ concurrency >= 2 =>
              \A i \in Entries \ {1} :
                  <>[](i \in DOMAIN pc => pc[i] \in Terminal)
        /\ concurrency = 1 =>
              [](\A i \in DOMAIN pc : i # 1 => pc[i] = "queued")

\* the download of the first entry hangs, the two other entries have gone
\* through the second slot and the run is not complete
C36_Witness ==
    /\ phase = "running"
    /\ concurrency = 2
    /\ DOMAIN pc = {1, 2, 3}
    /\ pc[1] = "download"
    /\ pc[2] \in Terminal
    /\ pc[3] \in Terminal
    /\ activeProcesses = {[pl |-> 1, kind |-> "download"]}

\* C37: when nothing shuts the program down and every spawned process exits
\* in the end, the run reaches, and stays in, a state in which every
\* downloadTrack call has returned (main reports completion), and
\* activeProcesses and activeDownloads are empty.
C37_EveryItemAccounted ==
    <>[](/\ AllReturned
         /\ DOMAIN pc = DOMAIN list
         /\ activeProcesses = {}
         /\ activeDownloads = {})

\* a run over three entries is complete, with one entry finalized and one
\* failed, and nothing is registered any more
C37_Witness ==
    /\ AllReturned
    /\ DOMAIN pc = {1, 2, 3}
    /\ \E i, j \in DOMAIN pc : pc[i] = "finalized" /\ pc[j] = "failed"
    /\ activeProcesses = {}
    /\ activeDownloads = {}

====
